---- MODULE Spec2Model ----
(***************************************************************************)
(* A model of the vision-board engine of src/App.tsx, the drag controller  *)
(* of src/components/DraggableItem.tsx and the IndexedDB service that      *)
(* follows it in the same file.                                            *)
(*                                                                         *)
(* JavaScript numbers that the code divides (scale, positions, offsets)    *)
(* are modelled as exact rationals [n, d] in lowest terms; the model does  *)
(* not reproduce the rounding of IEEE doubles.                             *)
(***************************************************************************)
EXTENDS Integers, Sequences, FiniteSets, TLC

VARIABLES
    items,        \* App: useState<BoardItemData[]>([])
    bgImage,      \* App: useState<string | null>(null)
    inputText,    \* App: useState('')
    scale,        \* App: useState(1)
    pan,          \* App: useState({x, y})
    isPanning,    \* App: useState(false)
    lastMousePos, \* App: useRef({x: 0, y: 0})
    comp,         \* DraggableItem instances by React key: [isDragging, dragOffset]
    dbItems,      \* object store 'items' (keyPath 'id'): id -> record
    dbSettings,   \* object store 'settings': key -> value
    itemsTx,      \* readwrite transactions queued on 'items', oldest first
    settingsTx,   \* readwrite transactions queued on 'settings', oldest first
    now,          \* the reading of Date.now()
    loading,      \* App: useState(false)
    isInitializing, \* App: useState(true)
    loadPc,       \* where loadData stands: "readItems", "readBg" or "done"
    apiKey,       \* geminiService: whether the build carries an API key
    pending,      \* generation requests awaiting the collaborator, oldest first
    pointer,      \* the single pointer: [down, capture, prevented]
    last,         \* history: the handler that ran last
    hist          \* history: values recorded at pointer-down and at start-up

colVars  == <<items, bgImage, inputText>>
viewVars == <<scale, pan, isPanning, lastMousePos>>
dbVars   == <<dbItems, dbSettings, itemsTx, settingsTx>>
sessVars == <<loading, isInitializing, loadPc, apiKey, pending>>
vars     == <<items, bgImage, inputText, scale, pan, isPanning, lastMousePos,
              comp, dbItems, dbSettings, itemsTx, settingsTx, now, loading,
              isInitializing, loadPc, apiKey, pending, pointer, last, hist>>

----------------------------------------------------------------------------
(* Bounds of the model.                                                    *)
MaxItems == 2
MaxClock == 2
MaxQueue == 2
\* The zIndex up to which the model follows bringToFront.
MaxZIndex == 4

----------------------------------------------------------------------------
(* Exact rational arithmetic for JavaScript numbers.                       *)
RECURSIVE GCD(_, _)
GCD(a, b) == IF b = 0 THEN a ELSE GCD(b, a % b)

Abs(a) == IF a < 0 THEN -a ELSE a

Rat(n, d) ==
    LET m == IF d < 0 THEN -n ELSE n
        e == Abs(d)
        g == GCD(Abs(m), e)
    IN  [n |-> m \div g, d |-> e \div g]

Num(i) == [n |-> i, d |-> 1]
RAdd(a, b) == Rat(a.n * b.d + b.n * a.d, a.d * b.d)
RSub(a, b) == Rat(a.n * b.d - b.n * a.d, a.d * b.d)
RMul(a, b) == Rat(a.n * b.n, a.d * b.d)
RDiv(a, b) == Rat(a.n * b.d, a.d * b.n)
RLess(a, b) == a.n * b.d < b.n * a.d
RMax(a, b) == IF RLess(a, b) THEN b ELSE a
RMin(a, b) == IF RLess(a, b) THEN a ELSE b

Point(x, y) == [x |-> x, y |-> y]

----------------------------------------------------------------------------
(* Data model (types.ts) and the constants of App.tsx.                     *)
BOARD_WIDTH  == 2000
BOARD_HEIGHT == 1500

IMAGE == "IMAGE"
NOTE  == "NOTE"
QUOTE == "QUOTE"
GOAL_LIST == "GOAL_LIST"

Undefined == "undefined"          \* an optional string field that is not set
NoNum     == [n |-> 0, d |-> 0]   \* an optional number field that is not set
Null      == "null"

\* window.innerWidth / innerHeight read by loadData, and the canvas origin on
\* screen: the canvas starts at the left edge, below the h-14 (56px) header.
ViewportWidth  == 1200
ViewportHeight == 800
CanvasLeft == 0
CanvasTop  == 56

BoardItemData(id, type, position, zIndex, content, meta) ==
    [id |-> id, type |-> type, position |-> position, zIndex |-> zIndex,
     content |-> content, meta |-> meta]

Meta(color, rotation, title) ==
    [color |-> color, rotation |-> rotation, title |-> title]

\* Date.now().toString()
NewId(t) == ToString(t)

\* The draws of Math.random() made by one creation: <<x, y, rotation>>.
RandomDraws == { <<Rat(1, 2), Rat(1, 2), Rat(5, 6)>> }

\* What the user may have typed into the text input.
InputTexts == {"", "https://example.org/a.png"}

\* Settings a previous session may have left in the 'settings' store besides
\* bgImage (the store is a generic key-value store).
EmptyStore == [k \in {} |-> Null]
SeededSettings == { [k \in {"otherPref"} |-> "dark"] }

\* Files the user may pick as background, as data URLs.
BgFiles == {"data:bg"}

----------------------------------------------------------------------------
(* Item Collection: the state updaters of App.tsx (lines 66-100).          *)
Ids(seq) == { seq[i].id : i \in DOMAIN seq }

RECURSIVE SeqMax(_, _)
SeqMax(seq, acc) ==
    IF seq = << >> THEN acc
    ELSE SeqMax(Tail(seq), IF Head(seq) > acc THEN Head(seq) ELSE acc)

\* Math.max(...prev.map(i => i.zIndex), 0)
MaxZ(prev) == SeqMax([i \in DOMAIN prev |-> prev[i].zIndex], 0)

\* { ...item, ...updates }
\* A merge in which the fields the item already has win.
MergeKeepsExisting(item, updates) ==
    [f \in DOMAIN item \cup DOMAIN updates |->
        IF f \in DOMAIN item THEN item[f] ELSE updates[f]]

\* { ...item, ...updates }
Merge(item, updates) ==
    [f \in DOMAIN item \cup DOMAIN updates |->
        IF f \in DOMAIN updates THEN updates[f] ELSE item[f]]

addItemMem(prev, item) == Append(prev, item)

\* An update that rebuilds the item without its meta.
updateItemMemDropsMeta(prev, id, updates) ==
    [i \in DOMAIN prev |->
        IF prev[i].id = id
        THEN [Merge(prev[i], updates) EXCEPT
                 !.meta = Meta(Undefined, NoNum, Undefined)]
        ELSE prev[i]]

updateItemMem(prev, id, updates) ==
    [i \in DOMAIN prev |->
        IF prev[i].id = id THEN Merge(prev[i], updates) ELSE prev[i]]

deleteItemMem(prev, id) == SelectSeq(prev, LAMBDA it : it.id # id)

bringToFrontMem(prev, id) ==
    [i \in DOMAIN prev |->
        IF prev[i].id = id
        THEN [prev[i] EXCEPT !.zIndex = MaxZ(prev) + 1]
        ELSE prev[i]]

\* The items an updater hands to dbService.saveItem: the updated ones, in order.
Matching(seq, id) == SelectSeq(seq, LAMBDA it : it.id = id)

----------------------------------------------------------------------------
(* dbService (DraggableItem.tsx lines 197-225) over the two object stores. *)
\* A put that keeps the stored value of a key that is already present.
dbPutIfAbsent(st, key, value) ==
    [k \in DOMAIN st \cup {key} |-> IF k \in DOMAIN st THEN st[k] ELSE value]

dbPut(st, key, value) ==
    [k \in DOMAIN st \cup {key} |-> IF k = key THEN value ELSE st[k]]

\* A delete that empties the store.
dbDeleteEverything(st, key) == EmptyStore

dbDelete(st, key) == [k \in DOMAIN st \ {key} |-> st[k]]

dbClear(st) == EmptyStore

dbGet(st, key) == IF key \in DOMAIN st THEN st[key] ELSE Undefined

\* Keys are the decimal renderings of clock readings of one length, so their
\* order as strings is the order of the readings.
KeyNum(k) == CHOOSE n \in 0..(MaxClock + 1) : ToString(n) = k

RECURSIVE SortedKeys(_)
SortedKeys(S) ==
    IF S = {} THEN << >>
    ELSE LET m == CHOOSE k \in S : \A o \in S : KeyNum(k) <= KeyNum(o)
         IN  <<m>> \o SortedKeys(S \ {m})

\* getAll('items'): every record, in key order.
getAllItems(st) == LET ks == SortedKeys(DOMAIN st) IN [i \in DOMAIN ks |-> st[ks[i]]]

PutTx(item)  == [op |-> "put", item |-> item]
DeleteTx(id) == [op |-> "delete", id |-> id]
ClearTx      == [op |-> "clear"]
PutSettingTx(key, value) == [op |-> "put", key |-> key, value |-> value]
DeleteSettingTx(key)     == [op |-> "delete", key |-> key]

\* saveItem for each item of seq, in order.
SaveAll(queue, seq) == queue \o [i \in DOMAIN seq |-> PutTx(seq[i])]

\* loadData (App.tsx lines 31-47), on a store that can be read: the collection
\* and the background it leaves in memory, starting from the initial state.
loadItems(st) == IF Len(getAllItems(st)) > 0 THEN getAllItems(st) ELSE << >>
loadBg(st) ==
    LET storedBg == dbGet(st, "bgImage")
    IN  IF storedBg \notin {Undefined, Null, ""} THEN storedBg ELSE Null

\* Center view (App.tsx lines 54-59).
centerPan == Point(Rat(-(BOARD_WIDTH - ViewportWidth), 2),
                   Rat(-(BOARD_HEIGHT - ViewportHeight), 2))


----------------------------------------------------------------------------
(* Creation of items (App.tsx lines 188-198 and 310-321).                  *)
NotePosition(r) ==
    Point(RAdd(Num(BOARD_WIDTH \div 2 - 100), RMul(r[1], Num(50))),
          RAdd(Num(BOARD_HEIGHT \div 2), RMul(r[2], Num(50))))

\* (Math.random() - 0.5) * 6
NoteRotation(r) == RMul(RSub(r[3], Rat(1, 2)), Num(6))

NoteItem(t, count, text, r) ==
    BoardItemData(NewId(t), NOTE, NotePosition(r), count + 1,
                  IF text = "" THEN "New Note" ELSE text,
                  Meta("bg-yellow-100", NoteRotation(r), Undefined))

ImageUrlItem(t, count, text) ==
    BoardItemData(NewId(t), IMAGE,
                  Point(Num(BOARD_WIDTH \div 2), Num(BOARD_HEIGHT \div 2)),
                  count + 1, text, Meta(Undefined, NoNum, "Image"))

----------------------------------------------------------------------------
(* geminiService (part_001) and the generators of App.tsx (lines 130-185). *)

\* The value of the category select when a generator is clicked.
Categories == {"General"}

\* What ai.models.generateContent may do for an affirmation or for goals: raise,
\* or resolve with a response whose text is absent or is one of these strings.
ReplyTexts == {"", "  ", " Shine on. ", "[\"Run\",\"Save\",\"Rest\"]", "[\"Run\"]"}
TextReplies ==
    {[kind |-> "error"], [kind |-> "text", text |-> Undefined]}
        \cup {[kind |-> "text", text |-> t] : t \in ReplyTexts}

\* String.prototype.trim on the texts above.
Trim(t) ==
    CASE t = "  " -> ""
      [] t = " Shine on. " -> "Shine on."
      [] OTHER -> t

\* JSON.parse on the texts above: whether it returns, and the value.
JsonParses(t) == t \in {"[\"Run\",\"Save\",\"Rest\"]", "[\"Run\"]"}
JsonParse(t) ==
    CASE t = "[\"Run\",\"Save\",\"Rest\"]" -> <<"Run", "Save", "Rest">>
      [] t = "[\"Run\"]" -> <<"Run">>

\* `2026 ${inputCategory} Goals`
GoalsTitle(category) == CASE category = "General" -> "2026 General Goals"

\* An affirmation that answers every failure with one default.
affirmationResultOneDefault(reply) ==
    IF reply.kind = "error" \/ reply.text = Undefined \/ Trim(reply.text) = ""
    THEN "Believe in yourself."
    ELSE Trim(reply.text)

\* generateAffirmation after checkApiKey (part_001 lines 26-35).
affirmationResult(reply) ==
    IF reply.kind = "error" THEN "Focus on the good."
    ELSE IF reply.text = Undefined \/ Trim(reply.text) = ""
         THEN "Believe in yourself."
         ELSE Trim(reply.text)

\* generateGoals after checkApiKey (part_001 lines 40-61).
goalsResult(reply) ==
    IF reply.kind = "error" THEN <<"Dream Big", "Take Action", "Stay Consistent">>
    ELSE IF reply.text \in {Undefined, ""} THEN <<"Goal 1", "Goal 2", "Goal 3">>
    ELSE IF ~JsonParses(reply.text)
         THEN <<"Dream Big", "Take Action", "Stay Consistent">>
         ELSE JsonParse(reply.text)

\* What generateContent may do for an image: raise, or resolve with a response
\* that holds inline image data or none.
ImageReplies ==
    {[kind |-> "error"], [kind |-> "noImage"],
     [kind |-> "image", mimeType |-> "image/png", data |-> "AAAA"]}

\* generateVisionImage after checkApiKey (part_001 lines 66-94): the data URL,
\* null, or "throws".
visionImageResult(reply) ==
    CASE reply.kind = "error" -> "throws"
      [] reply.kind = "noImage" -> Null
      [] reply.kind = "image" -> "data:image/png;base64,AAAA"

\* A request as its handler holds it while it awaits: the handler's closure
\* keeps inputCategory, inputText and items.length of the render it ran in.
Request(kind, topic, count) == [kind |-> kind, topic |-> topic, count |-> count]

QuoteItem(t, count, quote, r) ==
    BoardItemData(NewId(t), QUOTE,
                  Point(RAdd(Num(BOARD_WIDTH \div 2 - 150), RMul(r[1], Num(100))),
                        RAdd(Num(BOARD_HEIGHT \div 2 - 50), RMul(r[2], Num(100)))),
                  count + 1, quote, Meta("bg-blue-50/90", NoNum, Undefined))

GoalsItem(t, count, category, goals, r) ==
    BoardItemData(NewId(t), GOAL_LIST,
                  Point(RAdd(Num(BOARD_WIDTH \div 2 - 100), RMul(r[1], Num(100))),
                        RAdd(Num(BOARD_HEIGHT \div 2), RMul(r[2], Num(100)))),
                  count + 1, "",
                  [color |-> Undefined, rotation |-> NoNum,
                   title |-> GoalsTitle(category), items |-> goals])

VisionItem(t, count, prompt, image, r) ==
    BoardItemData(NewId(t), IMAGE,
                  Point(RAdd(Num(BOARD_WIDTH \div 2 - 150), RMul(r[1], Num(100))),
                        RAdd(Num(BOARD_HEIGHT \div 2 - 150), RMul(r[2], Num(100)))),
                  count + 1, image,
                  Meta(Undefined, RMul(RSub(r[3], Rat(1, 2)), Num(10)), prompt))

\* pending without its k-th request.
Without(seq, k) == [i \in 1..(Len(seq) - 1) |-> IF i < k THEN seq[i] ELSE seq[i + 1]]

----------------------------------------------------------------------------
(* DraggableItem: one instance per React key, with its own state.          *)
FreshComp == [isDragging |-> FALSE, dragOffset |-> Point(Num(0), Num(0))]

\* Instances after a render of seq: kept by key, created fresh, or unmounted.
Render(c, seq) == [id \in Ids(seq) |-> IF id \in DOMAIN c THEN c[id] ELSE FreshComp]

Dragging(c) == { id \in DOMAIN c : c[id].isDragging }

PSub(a, b) == Point(RSub(a.x, b.x), RSub(a.y, b.y))
PAdd(a, b) == Point(RAdd(a.x, b.x), RAdd(a.y, b.y))
PScale(a, k) == Point(RMul(a.x, k), RMul(a.y, k))
PDiv(a, k) == Point(RDiv(a.x, k), RDiv(a.y, k))
IntPoint(x, y) == Point(Num(x), Num(y))

\* nodeRef.current.offsetParent.getBoundingClientRect(): the board, which is
\* translated by pan from the canvas origin (transform-origin top left).
parentRect(pn) == PAdd(IntPoint(CanvasLeft, CanvasTop), pn)

\* How far the bounding box of a rotated element reaches beyond the left and
\* top edge of the unrotated box, in board pixels (it depends on the rendered
\* size); an element that is not rotated has its box at its left and top.
Rotated(item) == item.meta.rotation \notin {NoNum, Num(0)}
Insets(item) == IF Rotated(item) THEN { IntPoint(2, 5) } ELSE { IntPoint(0, 0) }

\* nodeRef.current.getBoundingClientRect(), left and top.
itemRect(item, sc, pn, inset) ==
    PAdd(parentRect(pn), PScale(PSub(item.position, inset), sc))

\* Where inside an item's bounding box the pointer may be, in screen pixels.
GrabPoints(item) ==
    IF Rotated(item) THEN { IntPoint(20, 20) } ELSE { IntPoint(0, 0) }

\* How many moves of a pointer that is not captured the model lets an item
\* follow (each moves the item relative to where it is).
MaxHoverMoves == 1

\* Where a captured pointer may move to, in screen pixels.
ScreenPoints == { IntPoint(600, 500), IntPoint(650, 500) }

\* (e.clientX - parentRect.left - dragOffset.x) / scale
newPosition(p, pn, off, sc) == PDiv(PSub(PSub(p, parentRect(pn)), off), sc)

\* The single pointer: whether it is pressed, the item that holds its capture,
\* and whether its pointerdown was cancelled by preventDefault (no mouse
\* events follow a cancelled pointerdown until the pointer is released).
FreePointer == [down |-> FALSE, capture |-> "none", prevented |-> FALSE]

\* History kept for the properties: the handler that ran last, with the item
\* it was given (addItem, a completed put) or what it found (a completed clear,
\* the end of a reset).
Op(name, id) == [op |-> name, id |-> id]
Added(item) == [op |-> "addItem", id |-> item.id, item |-> item]

\* History kept for the properties: an alert() was shown by handler `by`, with
\* what the handler found when it was called.
Alert(by) ==
    [op |-> "alert", id |-> "", by |-> by, items |-> items,
     loading |-> loading, pending |-> pending]

\* History kept for the properties: a generator ended; reply is what the
\* collaborator did ("noKey": checkApiKey threw before any call), added is
\* whether the generator called addItem, before is the collection it found.
Settled(name, id, reply, added) ==
    [op |-> name, id |-> id, reply |-> reply, added |-> added, before |-> items]

\* History kept for the properties: the settings found at start-up, and, of the
\* latest pointer-down that started a drag: the collection before it, the
\* pointer position, the scale, and the latest position the pointer moved to;
\* and the number of clicks on the zoom buttons.
NoHist(seed, seq) ==
    [seed |-> seed, snap |-> seq, p0 |-> IntPoint(0, 0), p |-> IntPoint(0, 0),
     scale0 |-> Num(1), id |-> "", moved |-> FALSE, hover |-> 0, zooms |-> 0]

----------------------------------------------------------------------------
Init ==
    /\ dbItems = EmptyStore
    /\ dbSettings \in SeededSettings
    /\ items = loadItems(dbItems)
    /\ bgImage = loadBg(dbSettings)
    /\ inputText = ""
    /\ scale = Num(1)
    /\ pan = centerPan
    /\ isPanning = FALSE
    /\ lastMousePos = IntPoint(0, 0)
    /\ comp = Render(EmptyStore, items)
    /\ itemsTx = << >>
    /\ settingsTx = << >>
    /\ now = 1
    /\ loading = FALSE
    /\ isInitializing = FALSE
    /\ loadPc = "done"
    /\ apiKey = TRUE
    /\ pending = << >>
    /\ pointer = FreePointer
    /\ last = Op("init", "")
    /\ hist = NoHist(dbSettings, items)

\* Time passes.
Tick ==
    /\ now < MaxClock
    /\ now' = now + 1
    /\ last' = Op("tick", "")
    /\ UNCHANGED <<colVars, viewVars, dbVars, comp, sessVars, pointer, hist>>

\* onChange of the text inputs.
SetInputText ==
    \E t \in InputTexts \ {inputText} :
        /\ inputText' = t
        /\ last' = Op("setInputText", "")
        /\ UNCHANGED <<items, bgImage, viewVars, dbVars, comp, now, sessVars, pointer, hist>>

\* addItem (App.tsx lines 66-69) followed by the render.
AddItem(item) ==
    /\ Len(items) < MaxItems
    /\ Len(itemsTx) < MaxQueue
    /\ items' = addItemMem(items, item)
    /\ itemsTx' = Append(itemsTx, PutTx(item))
    /\ comp' = Render(comp, items')

\* addNote (App.tsx lines 188-198).
AddNote ==
    \E r \in RandomDraws :
        /\ AddItem(NoteItem(now, Len(items), inputText, r))
        /\ inputText' = ""
        /\ last' = Added(NoteItem(now, Len(items), inputText, r))
        /\ UNCHANGED <<bgImage, viewVars, dbItems, dbSettings, settingsTx, now, sessVars,
                       pointer, hist>>

\* An "Add Image URL" that does not look at the text input.
AddImageUrlUnchecked ==
    /\ AddItem(ImageUrlItem(now, Len(items), inputText))
    /\ inputText' = ""
    /\ last' = Added(ImageUrlItem(now, Len(items), inputText))
    /\ UNCHANGED <<bgImage, viewVars, dbItems, dbSettings, settingsTx, now,
                   sessVars, pointer, hist>>

\* onClick of "Add Image URL" (App.tsx lines 310-321).
AddImageUrl ==
    IF inputText = ""
    THEN /\ last' = Alert("addImageUrl")
         /\ UNCHANGED <<colVars, viewVars, dbVars, comp, now, sessVars, pointer, hist>>
    ELSE /\ AddItem(ImageUrlItem(now, Len(items), inputText))
         /\ inputText' = ""
         /\ last' = Added(ImageUrlItem(now, Len(items), inputText))
         /\ UNCHANGED <<bgImage, viewVars, dbItems, dbSettings, settingsTx, now, sessVars,
                        pointer, hist>>

\* deleteItem (App.tsx lines 82-85), from the delete button of item i.
DeleteItem ==
    \E i \in DOMAIN items :
        /\ ~pointer.down
        /\ Len(itemsTx) < MaxQueue
        /\ items' = deleteItemMem(items, items[i].id)
        /\ itemsTx' = Append(itemsTx, DeleteTx(items[i].id))
        /\ comp' = Render(comp, items')
        /\ last' = Op("deleteItem", items[i].id)
        /\ UNCHANGED <<bgImage, inputText, viewVars, dbItems, dbSettings,
                       settingsTx, now, sessVars, pointer, hist>>


\* Ids that no item of the boards considered has, and partial items a caller
\* may pass to updateItem.
AbsentIds == {"404"}
Updates ==
    { [position |-> IntPoint(10, 20)],
      [zIndex |-> 3],
      [content |-> "edited", zIndex |-> 1] }

\* History kept for the properties: a direct call of updateItem or deleteItem,
\* with the collection and the queued transactions it found.
Called(name, id, updates) ==
    [op |-> name, id |-> id, updates |-> updates, before |-> items,
     queue |-> itemsTx]

\* updateItem(id, updates) (App.tsx lines 71-80), called with any id.
UpdateItemCall ==
    \E id \in Ids(items) \cup AbsentIds, updates \in Updates :
        /\ items' = updateItemMem(items, id, updates)
        /\ Len(itemsTx) + Len(Matching(items, id)) <= MaxQueue
        /\ itemsTx' = SaveAll(itemsTx, Matching(items', id))
        /\ comp' = Render(comp, items')
        /\ last' = Called("updateItemCall", id, updates)
        /\ UNCHANGED <<bgImage, inputText, viewVars, dbItems, dbSettings,
                       settingsTx, now, sessVars, pointer, hist>>

\* deleteItem(id) (App.tsx lines 82-85), called with any id.
DeleteItemCall ==
    \E id \in Ids(items) \cup AbsentIds :
        /\ Len(itemsTx) < MaxQueue
        /\ items' = deleteItemMem(items, id)
        /\ itemsTx' = Append(itemsTx, DeleteTx(id))
        /\ comp' = Render(comp, items')
        /\ last' = Called("deleteItemCall", id, << >>)
        /\ UNCHANGED <<bgImage, inputText, viewVars, dbItems, dbSettings,
                       settingsTx, now, sessVars, pointer, hist>>

\* handleResetBoard (App.tsx lines 102-108) up to its await: window.confirm,
\* then clearBoard, whose first transaction clears 'items'.
\* A handler that clears whatever window.confirm answers.
resetProceedsAlways(confirmed) == TRUE

\* if (window.confirm(...)) (line 103).
resetProceeds(confirmed) == confirmed

ResetBoard ==
    \E confirmed \in BOOLEAN :
        /\ ~pointer.down
        /\ IF resetProceeds(confirmed)
           THEN /\ Len(itemsTx) < MaxQueue
                /\ itemsTx' = Append(itemsTx, ClearTx)
           ELSE itemsTx' = itemsTx
        /\ last' = Op(IF confirmed THEN "resetConfirmed" ELSE "resetDeclined", "")
        /\ UNCHANGED <<colVars, viewVars, dbItems, dbSettings, settingsTx, comp,
                       now, sessVars, pointer, hist>>

\* reader.onload of handleBgUpload (App.tsx lines 115-119).
BgUpload ==
    \E result \in BgFiles :
        /\ Len(settingsTx) < MaxQueue
        /\ bgImage' = result
        /\ settingsTx' = Append(settingsTx, PutSettingTx("bgImage", result))
        /\ last' = Op("bgUpload", "")
        /\ UNCHANGED <<items, inputText, viewVars, dbItems, dbSettings, itemsTx,
                       comp, now, sessVars, pointer, hist>>

\* handleClearBg (App.tsx lines 124-127); its button shows while bgImage is set.
ClearBg ==
    /\ bgImage # Null
    /\ Len(settingsTx) < MaxQueue
    /\ bgImage' = Null
    /\ settingsTx' = Append(settingsTx, PutSettingTx("bgImage", Null))
    /\ last' = Op("clearBg", "")
    /\ UNCHANGED <<items, inputText, viewVars, dbItems, dbSettings, itemsTx,
                   comp, now, sessVars, pointer, hist>>

\* What a transaction on 'items' leaves in the store.
applyItemsTx(st, tx) ==
    CASE tx.op = "put"    -> dbPut(st, tx.item.id, tx.item)
      [] tx.op = "delete" -> dbDelete(st, tx.id)
      [] tx.op = "clear"  -> dbClear(st)

\* What a transaction on 'settings' leaves in the store.
applySettingsTx(st, tx) ==
    CASE tx.op = "put"    -> dbPut(st, tx.key, tx.value)
      [] tx.op = "delete" -> dbDelete(st, tx.key)

\* The oldest transaction on 'items' completes. After its clear, clearBoard
\* goes on to delete the bgImage setting (DraggableItem.tsx lines 220-221).
ItemsTxDone ==
    /\ itemsTx # << >>
    /\ LET tx == Head(itemsTx) IN
        /\ dbItems' = applyItemsTx(dbItems, tx)
        /\ itemsTx' = Tail(itemsTx)
        /\ IF tx.op = "clear"
           THEN /\ Len(settingsTx) < MaxQueue
                /\ settingsTx' = Append(settingsTx, DeleteSettingTx("bgImage"))
           ELSE settingsTx' = settingsTx
        /\ last' = CASE tx.op = "put" ->
                          [op |-> "put", id |-> tx.item.id, item |-> tx.item]
                       [] tx.op = "delete" -> Op("delete", tx.id)
                       [] tx.op = "clear" ->
                          [op |-> "clear", id |-> "", hadItems |-> DOMAIN dbItems # {},
                           cleared |-> DOMAIN dbItems]
    /\ UNCHANGED <<colVars, viewVars, dbSettings, comp, now, sessVars, pointer, hist>>

\* The oldest transaction on 'settings' completes. After the delete of
\* clearBoard, handleResetBoard resumes (App.tsx lines 105-106).
SettingsTxDone ==
    /\ settingsTx # << >>
    /\ LET tx == Head(settingsTx) IN
        /\ dbSettings' = applySettingsTx(dbSettings, tx)
        /\ settingsTx' = Tail(settingsTx)
        /\ IF tx.op = "delete"
           THEN /\ items' = << >>
                /\ bgImage' = Null
                /\ comp' = Render(comp, items')
                /\ last' = [op |-> "resetDone", id |-> "",
                             hadBg |-> "bgImage" \in DOMAIN dbSettings,
                             hadItems |-> items # << >>]
           ELSE /\ UNCHANGED <<items, bgImage, comp>>
                /\ last' = Op("putSetting", tx.key)
    /\ UNCHANGED <<inputText, viewVars, dbItems, itemsTx, now, sessVars, pointer, hist>>

----------------------------------------------------------------------------
(* Generators (App.tsx lines 130-185). Their buttons are disabled while    *)
(* loading is set (lines 380, 388, 407).                                    *)

\* An "Inspire Me" button that is not disabled while loading.
GenerateQuoteUngated ==
    \E c \in Categories :
        /\ IF ~apiKey
           THEN /\ loading' = FALSE
                /\ pending' = pending
                /\ last' = Settled("quoteSettled", "", [kind |-> "noKey"], FALSE)
           ELSE /\ loading' = TRUE
                /\ pending' = Append(pending, Request("quote", c, Len(items)))
                /\ last' = Op("generateQuote", "")
        /\ UNCHANGED <<colVars, viewVars, dbVars, comp, now, isInitializing,
                       loadPc, apiKey, pointer, hist>>

\* handleGenerateQuote up to its await (lines 130-133). Without an API key
\* generateAffirmation rejects before any call and only the finally block runs.
GenerateQuote ==
    \E c \in Categories :
        /\ ~loading
        /\ IF ~apiKey
           THEN /\ loading' = FALSE
                /\ pending' = pending
                /\ last' = Settled("quoteSettled", "", [kind |-> "noKey"], FALSE)
           ELSE /\ loading' = TRUE
                /\ pending' = Append(pending, Request("quote", c, Len(items)))
                /\ last' = Op("generateQuote", "")
        /\ UNCHANGED <<colVars, viewVars, dbVars, comp, now, isInitializing,
                       loadPc, apiKey, pointer, hist>>

\* handleGenerateQuote from the settled call on (lines 133-144).
QuoteSettles ==
    \E k \in DOMAIN pending, reply \in TextReplies, r \in RandomDraws :
        LET item == QuoteItem(now, pending[k].count, affirmationResult(reply), r)
        IN  /\ pending[k].kind = "quote"
            /\ AddItem(item)
            /\ pending' = Without(pending, k)
            /\ loading' = FALSE
            /\ last' = Settled("quoteSettled", item.id, reply, TRUE)
            /\ UNCHANGED <<bgImage, inputText, viewVars, dbItems, dbSettings,
                           settingsTx, now, isInitializing, loadPc, apiKey,
                           pointer, hist>>

\* handleGenerateGoals up to its await (lines 147-150).
GenerateGoals ==
    \E c \in Categories :
        /\ ~loading
        /\ IF ~apiKey
           THEN /\ loading' = FALSE
                /\ pending' = pending
                /\ last' = Settled("goalsSettled", "", [kind |-> "noKey"], FALSE)
           ELSE /\ loading' = TRUE
                /\ pending' = Append(pending, Request("goals", c, Len(items)))
                /\ last' = Op("generateGoals", "")
        /\ UNCHANGED <<colVars, viewVars, dbVars, comp, now, isInitializing,
                       loadPc, apiKey, pointer, hist>>

\* handleGenerateGoals from the settled call on (lines 150-161).
GoalsSettles ==
    \E k \in DOMAIN pending, reply \in TextReplies, r \in RandomDraws :
        LET item == GoalsItem(now, pending[k].count, pending[k].topic,
                              goalsResult(reply), r)
        IN  /\ pending[k].kind = "goals"
            /\ AddItem(item)
            /\ pending' = Without(pending, k)
            /\ loading' = FALSE
            /\ last' = Settled("goalsSettled", item.id, reply, TRUE)
            /\ UNCHANGED <<bgImage, inputText, viewVars, dbItems, dbSettings,
                           settingsTx, now, isInitializing, loadPc, apiKey,
                           pointer, hist>>

\* handleGenerateImage up to its await (lines 164-168); its button is also
\* disabled while the text input is empty (line 407). Without an API key
\* generateVisionImage rejects before any call and the catch block alerts.
GenerateImage ==
    /\ ~loading
    /\ inputText # ""
    /\ IF inputText = ""
       THEN /\ UNCHANGED <<loading, pending>>
            /\ last' = Op("generateImageNoText", "")
       ELSE IF ~apiKey
       THEN /\ loading' = FALSE
            /\ pending' = pending
            /\ last' = Alert("generateImage")
       ELSE /\ loading' = TRUE
            /\ pending' = Append(pending, Request("image", inputText, Len(items)))
            /\ last' = Op("generateImage", "")
    /\ UNCHANGED <<colVars, viewVars, dbVars, comp, now, isInitializing, loadPc,
                   apiKey, pointer, hist>>

\* A handleGenerateImage whose setLoading(false) is not in a finally block
\* and is skipped when the call raises.
ImageSettlesWithoutFinally ==
    \E k \in DOMAIN pending, reply \in ImageReplies, r \in RandomDraws :
        LET base64Image == visionImageResult(reply)
            item == VisionItem(now, pending[k].count, pending[k].topic,
                               base64Image, r)
        IN  /\ pending[k].kind = "image"
            /\ pending' = Without(pending, k)
            /\ IF base64Image = "throws"
               THEN /\ last' = [Alert("generateImage") EXCEPT !.id = "settled"]
                    /\ UNCHANGED <<items, inputText, itemsTx, comp, loading>>
               ELSE IF base64Image = Null
               THEN /\ last' = Settled("imageSettled", "", reply, FALSE)
                    /\ loading' = FALSE
                    /\ UNCHANGED <<items, inputText, itemsTx, comp>>
               ELSE /\ AddItem(item)
                    /\ inputText' = ""
                    /\ loading' = FALSE
                    /\ last' = Settled("imageSettled", item.id, reply, TRUE)
            /\ UNCHANGED <<bgImage, viewVars, dbItems, dbSettings, settingsTx,
                           now, isInitializing, loadPc, apiKey, pointer, hist>>

\* handleGenerateImage from the settled call on (lines 168-184).
ImageSettles ==
    \E k \in DOMAIN pending, reply \in ImageReplies, r \in RandomDraws :
        LET base64Image == visionImageResult(reply)
            item == VisionItem(now, pending[k].count, pending[k].topic,
                               base64Image, r)
        IN  /\ pending[k].kind = "image"
            /\ pending' = Without(pending, k)
            /\ loading' = FALSE
            /\ IF base64Image = "throws"
               THEN /\ last' = [Alert("generateImage") EXCEPT !.id = "settled"]
                    /\ UNCHANGED <<items, inputText, itemsTx, comp>>
               ELSE IF base64Image = Null
               THEN /\ last' = Settled("imageSettled", "", reply, FALSE)
                    /\ UNCHANGED <<items, inputText, itemsTx, comp>>
               ELSE /\ AddItem(item)
                    /\ inputText' = ""
                    /\ last' = Settled("imageSettled", item.id, reply, TRUE)
            /\ UNCHANGED <<bgImage, viewVars, dbItems, dbSettings, settingsTx,
                           now, isInitializing, loadPc, apiKey, pointer, hist>>

----------------------------------------------------------------------------
(* Pointer events on an item (DraggableItem.tsx lines 24-70, 86-88).       *)

\* A handler that starts a drag wherever the item is pressed.
inNoDragIgnored(noDrag) == FALSE

\* (e.target as HTMLElement).closest('.no-drag') (line 27).
inNoDrag(noDrag) == noDrag

\* onPointerDown of the item at index i; noDrag: the target is inside the
\* hover controls (.no-drag).
PointerDown ==
    \E i \in DOMAIN items, noDrag \in BOOLEAN :
      \E inset \in Insets(items[i]), g \in GrabPoints(items[i]) :
        LET id   == items[i].id
            rect == itemRect(items[i], scale, pan, inset)
            p    == PAdd(rect, g)
        IN  /\ ~pointer.down
            /\ last' = Op(IF noDrag THEN "pointerDownNoDrag" ELSE "pointerDown", id)
            /\ IF inNoDrag(noDrag)
               THEN /\ pointer' = [down |-> TRUE, capture |-> "none",
                                   prevented |-> FALSE]
                    /\ UNCHANGED <<items, itemsTx, comp, hist>>
               ELSE /\ MaxZ(items) < MaxZIndex
                    /\ items' = bringToFrontMem(items, id)
                    /\ Len(itemsTx) + Len(Matching(items, id)) <= MaxQueue
                    /\ itemsTx' = SaveAll(itemsTx, Matching(items', id))
                    /\ comp' = [comp EXCEPT ![id] =
                                   [isDragging |-> TRUE, dragOffset |-> PSub(p, rect)]]
                    /\ pointer' = [down |-> TRUE, capture |-> id,
                                   prevented |-> TRUE]
                    /\ hist' = [hist EXCEPT !.snap = items, !.p0 = p, !.p = p,
                                            !.scale0 = scale, !.id = id, !.moved = FALSE]
            /\ UNCHANGED <<bgImage, inputText, viewVars, dbItems, dbSettings,
                           settingsTx, now, sessVars>>

\* onPointerMove of the item at index i: the item that holds the capture, or,
\* with no capture, the item under the pointer.
PointerMove ==
    \E i \in DOMAIN items :
      LET id == items[i].id
          targets == IF pointer.capture = id
                     THEN ScreenPoints
                     ELSE { PAdd(itemRect(items[i], scale, pan, inset), g) :
                              inset \in Insets(items[i]), g \in GrabPoints(items[i]) }
      IN \E p \in targets :
        /\ pointer.capture \in {"none", id}
        /\ IF ~comp[id].isDragging
           THEN /\ last' = Op("pointerMoveIdle", id)
                /\ UNCHANGED <<items, itemsTx, hist>>
           ELSE /\ items' = updateItemMem(items, id,
                     [position |-> newPosition(p, pan, comp[id].dragOffset, scale)])
                /\ Len(itemsTx) + Len(Matching(items, id)) <= MaxQueue
                /\ itemsTx' = SaveAll(itemsTx, Matching(items', id))
                /\ last' = Op("pointerMove", id)
                /\ pointer.capture = "none" => hist.hover < MaxHoverMoves
                /\ hist' = [hist EXCEPT !.p = p, !.moved = TRUE,
                       !.hover = IF pointer.capture = "none" THEN @ + 1 ELSE @]
        /\ UNCHANGED <<bgImage, inputText, viewVars, dbItems, dbSettings,
                       settingsTx, comp, now, sessVars, pointer>>

\* The pointer is released over target: an item, whose onPointerUp runs, or
\* no item. A captured pointer is released on the item that holds the capture
\* while that item is mounted. Unless the pointerdown was cancelled, the
\* mouseup then reaches the canvas (handlePanUp, App.tsx line 220).
PointerUp ==
    \E target \in Ids(items) \cup {"none"} :
        /\ pointer.down
        /\ pointer.capture \in Ids(items) => target = pointer.capture
        /\ pointer' = FreePointer
        /\ IF target # "none" /\ comp[target].isDragging
           THEN /\ comp' = [comp EXCEPT ![target].isDragging = FALSE]
                /\ last' = Op("pointerUp", target)
           ELSE /\ comp' = comp
                /\ last' = Op("pointerUpIdle", target)
        /\ isPanning' = IF pointer.prevented THEN isPanning ELSE FALSE
        /\ UNCHANGED <<colVars, scale, pan, lastMousePos, dbVars, now, sessVars, hist>>

\* The pointer is cancelled or the capture is lost: the item binds no handler
\* for pointercancel or lostpointercapture, so no state of the program changes.
LostCapture ==
    /\ pointer.down
    /\ pointer.capture # "none"
    /\ last' = Op("lostCapture", pointer.capture)
    /\ pointer' = FreePointer
    /\ UNCHANGED <<colVars, viewVars, dbVars, comp, now, sessVars, hist>>

----------------------------------------------------------------------------
(* Viewport: panning (App.tsx lines 201-220, 430-436) and zoom (246-254).  *)

\* Where the mouse may be pressed on the board and where it may move to on the
\* canvas, in screen pixels.
PressPoints == { IntPoint(300, 300) }
MousePoints == { IntPoint(300, 300), IntPoint(340, 300) }

\* How many zoom steps away from the default scale the model goes.
MaxZoomSteps == 1

\* onMouseDown of the canvas; onBoard: the target is the board surface itself
\* (boardRef.current), not an item and not the canvas around the board.
PanDown ==
    \E p \in PressPoints, onBoard \in BOOLEAN :
        /\ ~pointer.down
        /\ pointer' = [down |-> TRUE, capture |-> "none", prevented |-> FALSE]
        /\ IF onBoard
           THEN /\ isPanning' = TRUE
                /\ lastMousePos' = p
                /\ last' = Op("panDown", "")
           ELSE /\ UNCHANGED <<isPanning, lastMousePos>>
                /\ last' = Op("mouseDownOffBoard", "")
        /\ UNCHANGED <<colVars, scale, pan, dbVars, comp, now, sessVars, hist>>

\* How far from the centred position the model lets the board be panned.
MaxPan == 40

PanInRange(pn) ==
    /\ ~RLess(Num(MaxPan), RSub(pn.x, centerPan.x))
    /\ ~RLess(RSub(pn.x, centerPan.x), Num(-MaxPan))

\* onMouseMove of the canvas; no mouse event follows a cancelled pointerdown.
PanMove ==
    \E p \in MousePoints :
        /\ ~(pointer.down /\ pointer.prevented)
        /\ IF isPanning
           THEN /\ pan' = PAdd(pan, PSub(p, lastMousePos))
                /\ PanInRange(pan')
                /\ lastMousePos' = p
                /\ last' = Op("panMove", "")
           ELSE /\ UNCHANGED <<pan, lastMousePos>>
                /\ last' = Op("mouseMove", "")
        /\ UNCHANGED <<colVars, scale, isPanning, dbVars, comp, now, sessVars, pointer, hist>>

\* onMouseLeave of the canvas (handlePanUp): the mouse leaves the canvas.
PanUp ==
    /\ ~(pointer.down /\ pointer.prevented)
    /\ isPanning' = FALSE
    /\ last' = Op("panUp", "")
    /\ UNCHANGED <<colVars, scale, pan, lastMousePos, dbVars, comp, now, sessVars, pointer,
                   hist>>

ZoomInRange(sc) ==
    /\ ~RLess(RAdd(Num(1), Rat(MaxZoomSteps, 10)), sc)
    /\ ~RLess(sc, RSub(Num(1), Rat(MaxZoomSteps, 10)))

\* setScale(s => Math.max(0.5, s - 0.1))
zoomOut(s) == RMax(Rat(1, 2), RSub(s, Rat(1, 10)))

\* A zoom-in that does not stop at the upper limit.
zoomInUnclamped(s) == RAdd(s, Rat(1, 10))

\* setScale(s => Math.min(2, s + 0.1))
zoomIn(s) == RMin(Num(2), RAdd(s, Rat(1, 10)))

\* onClick of the zoom buttons (App.tsx lines 246-254).
Zoom ==
    \E next \in {zoomOut(scale), zoomIn(scale)} :
        /\ ~pointer.down
        /\ ZoomInRange(next)
        /\ scale' = next
        /\ last' = Op("zoom", "")
        /\ UNCHANGED <<colVars, pan, isPanning, lastMousePos, dbVars, comp, now, sessVars,
                       pointer, hist>>

\* How many times the model lets the scale change while the pointer is held.
MaxHeldZooms == 2

\* A zoom button activated while the pointer is held on the board: from the
\* keyboard (the button keeps the focus after a click) or by a second touch.
ZoomHeld ==
    \E next \in {zoomOut(scale), zoomIn(scale)} :
        /\ pointer.down
        /\ hist.zooms < MaxHeldZooms
        /\ ZoomInRange(next)
        /\ scale' = next
        /\ last' = Op("zoomHeld", "")
        /\ hist' = [hist EXCEPT !.zooms = @ + 1]
        /\ UNCHANGED <<colVars, pan, isPanning, lastMousePos, dbVars, comp, now, sessVars,
                       pointer>>

\* How many clicks on the zoom buttons the model follows: ten steps of 0.1
\* lead from the default scale to the upper limit, one more meets the limit.
MaxZoomClicks == 11

\* Zoom buttons that also put the board back at the centre of the viewport.
ZoomClickRecenters ==
    \E dir \in {"zoomOut", "zoomIn"} :
        /\ hist.zooms < MaxZoomClicks
        /\ scale' = IF dir = "zoomOut" THEN zoomOut(scale) ELSE zoomIn(scale)
        /\ pan' = centerPan
        /\ last' = [op |-> dir, id |-> "", from |-> scale]
        /\ hist' = [hist EXCEPT !.zooms = @ + 1]
        /\ UNCHANGED <<colVars, isPanning, lastMousePos, dbVars, comp, now, sessVars,
                       pointer>>

\* onClick of the zoom buttons (App.tsx lines 246-254), any number of times.
ZoomClick ==
    \E dir \in {"zoomOut", "zoomIn"} :
        /\ hist.zooms < MaxZoomClicks
        /\ scale' = IF dir = "zoomOut" THEN zoomOut(scale) ELSE zoomIn(scale)
        /\ last' = [op |-> dir, id |-> "", from |-> scale]
        /\ hist' = [hist EXCEPT !.zooms = @ + 1]
        /\ UNCHANGED <<colVars, pan, isPanning, lastMousePos, dbVars, comp, now, sessVars,
                       pointer>>

----------------------------------------------------------------------------
(* The collection and its store: notes are added and deleted, brought to   *)
(* front by a pointer-down, and the board is reset, while the queued        *)
(* transactions complete.                                                   *)
Next ==
    \/ Tick
    \/ AddNote
    \/ DeleteItem
    \/ ResetBoard
    \/ ItemsTxDone
    \/ SettingsTxDone
    \/ PointerDown
    \/ PointerUp

Spec == Init /\ [][Next]_vars

(* Creation of notes and of images by URL, and deletion.                    *)
NextCreate ==
    \/ Tick
    \/ SetInputText
    \/ AddNote
    \/ AddImageUrl
    \/ DeleteItem
    \/ ItemsTxDone

SpecCreate == Init /\ [][NextCreate]_vars

(* The board, its background and both object stores under reset.           *)
NextReset ==
    \/ Tick
    \/ AddNote
    \/ DeleteItem
    \/ ResetBoard
    \/ BgUpload
    \/ ClearBg
    \/ ItemsTxDone
    \/ SettingsTxDone

SpecReset == Init /\ [][NextReset]_vars

(* A session that starts on a board saved by an earlier session and is      *)
(* then dragged, panned and zoomed.                                         *)
SavedBoards ==
    { << NoteItem(1, 0, "", r), ImageUrlItem(2, 1, "https://example.org/a.png") >> :
        r \in { d \in RandomDraws : NoteRotation(d) # Num(0) } }

RECURSIVE putAll(_, _)
putAll(st, seq) ==
    IF seq = << >> THEN st ELSE putAll(dbPut(st, Head(seq).id, Head(seq)), Tail(seq))

InitDrag ==
    /\ \E board \in SavedBoards : dbItems = putAll(EmptyStore, board)
    /\ dbSettings = EmptyStore
    /\ items = loadItems(dbItems)
    /\ bgImage = loadBg(dbSettings)
    /\ inputText = ""
    /\ scale = Num(1)
    /\ pan = centerPan
    /\ isPanning = FALSE
    /\ lastMousePos = IntPoint(0, 0)
    /\ comp = Render(EmptyStore, items)
    /\ itemsTx = << >>
    /\ settingsTx = << >>
    /\ now = MaxClock + 1
    /\ loading = FALSE
    /\ isInitializing = FALSE
    /\ loadPc = "done"
    /\ apiKey = TRUE
    /\ pending = << >>
    /\ pointer = FreePointer
    /\ last = Op("init", "")
    /\ hist = NoHist(dbSettings, items)

NextDrag ==
    \/ PointerDown
    \/ PointerMove
    \/ PointerUp
    \/ LostCapture
    \/ ItemsTxDone

SpecDrag == InitDrag /\ [][NextDrag]_vars

(* The same session with the board panned as well.                          *)
NextPan ==
    \/ PointerDown
    \/ PointerMove
    \/ PointerUp
    \/ LostCapture
    \/ PanDown
    \/ PanMove
    \/ PanUp
    \/ ItemsTxDone

SpecPan == InitDrag /\ [][NextPan]_vars

(* Start-up (App.tsx lines 13-63): the component mounts on the store an      *)
(* earlier session left, and loadData reads it. Until isInitializing is      *)
(* cleared the board is not rendered (lines 222-231) and takes no input.     *)
SavedSettings == { [k \in {"bgImage", "otherPref"} |->
                      IF k = "bgImage" THEN "data:bg" ELSE "dark"] }

InitLoad ==
    /\ \E board \in SavedBoards : dbItems = putAll(EmptyStore, board)
    /\ dbSettings \in SavedSettings
    /\ items = << >>
    /\ bgImage = Null
    /\ inputText = ""
    /\ scale = Num(1)
    /\ pan = Point(Rat(-BOARD_WIDTH, 4), Rat(-BOARD_HEIGHT, 4))
    /\ isPanning = FALSE
    /\ lastMousePos = IntPoint(0, 0)
    /\ comp = Render(EmptyStore, items)
    /\ itemsTx = << >>
    /\ settingsTx = << >>
    /\ now = MaxClock + 1
    /\ loading = FALSE
    /\ isInitializing = TRUE
    /\ loadPc = "readItems"
    /\ apiKey = TRUE
    /\ pending = << >>
    /\ pointer = FreePointer
    /\ last = Op("mount", "")
    /\ hist = NoHist(dbSettings, items)

\* The catch and finally blocks of loadData (lines 48-60).
loadDataFinally ==
    /\ isInitializing' = FALSE
    /\ loadPc' = "done"
    /\ pan' = centerPan

\* A loadData that shows the stored items as soon as they are read.
LoadItemsReadShowsEarly ==
    /\ loadPc = "readItems"
    /\ \E raises \in BOOLEAN :
        IF raises
        THEN /\ loadDataFinally
             /\ last' = Op("loadFailed", "items")
             /\ UNCHANGED <<items, comp>>
        ELSE /\ loadPc' = "readBg"
             /\ items' = loadItems(dbItems)
             /\ comp' = Render(comp, items')
             /\ last' = Op("itemsRead", "")
             /\ UNCHANGED <<isInitializing, pan>>
    /\ UNCHANGED <<bgImage, inputText, scale, isPanning, lastMousePos, dbVars,
                   now, loading, apiKey, pending, pointer, hist>>

\* await dbService.getAllItems() settles (line 33).
LoadItemsRead ==
    /\ loadPc = "readItems"
    /\ \E raises \in BOOLEAN :
        IF raises
        THEN /\ loadDataFinally
             /\ last' = Op("loadFailed", "items")
        ELSE /\ loadPc' = "readBg"
             /\ last' = Op("itemsRead", "")
             /\ UNCHANGED <<isInitializing, pan>>
    /\ UNCHANGED <<colVars, scale, isPanning, lastMousePos, dbVars, comp, now,
                   loading, apiKey, pending, pointer, hist>>

\* await dbService.getSetting('bgImage') settles (line 34), and loadData runs
\* to its end (lines 36-60). Nothing has written to the store since the items
\* were read.
LoadBgRead ==
    /\ loadPc = "readBg"
    /\ \E raises \in BOOLEAN :
        IF raises
        THEN /\ last' = Op("loadFailed", "bgImage")
             /\ UNCHANGED <<items, bgImage, comp>>
        ELSE /\ items' = loadItems(dbItems)
             /\ bgImage' = loadBg(dbSettings)
             /\ comp' = Render(comp, items')
             /\ last' = Op("loaded", "")
    /\ loadDataFinally
    /\ UNCHANGED <<inputText, scale, isPanning, lastMousePos, dbVars, now,
                   loading, apiKey, pending, pointer, hist>>

\* Besides loadData, what the rendered board takes from the user and the
\* writes it queued; the board is rendered once isInitializing is cleared.
NextLoad ==
    \/ LoadItemsRead
    \/ LoadBgRead
    \/ ~isInitializing /\ AddNote
    \/ ~isInitializing /\ DeleteItem
    \/ ~isInitializing /\ ClearBg
    \/ ~isInitializing /\ ItemsTxDone
    \/ ~isInitializing /\ SettingsTxDone

\* The reads of loadData settle: a request on an open database ends with a
\* success or an error event.
SpecLoad ==
    /\ InitLoad
    /\ [][NextLoad]_vars
    /\ WF_vars(LoadItemsRead)
    /\ WF_vars(LoadBgRead)

(* Generation: the three generators and their collaborator, with the text  *)
(* input and the image-by-URL button, in a build with or without API key.   *)
InitGen ==
    /\ dbItems = EmptyStore
    /\ dbSettings = EmptyStore
    /\ items = loadItems(dbItems)
    /\ bgImage = loadBg(dbSettings)
    /\ inputText = ""
    /\ scale = Num(1)
    /\ pan = centerPan
    /\ isPanning = FALSE
    /\ lastMousePos = IntPoint(0, 0)
    /\ comp = Render(EmptyStore, items)
    /\ itemsTx = << >>
    /\ settingsTx = << >>
    /\ now = 1
    /\ loading = FALSE
    /\ isInitializing = FALSE
    /\ loadPc = "done"
    /\ apiKey \in BOOLEAN
    /\ pending = << >>
    /\ pointer = FreePointer
    /\ last = Op("init", "")
    /\ hist = NoHist(dbSettings, items)

NextGen ==
    \/ Tick
    \/ SetInputText
    \/ AddImageUrl
    \/ GenerateQuote
    \/ QuoteSettles
    \/ GenerateGoals
    \/ GoalsSettles
    \/ GenerateImage
    \/ ImageSettles
    \/ ItemsTxDone

SpecGen == InitGen /\ [][NextGen]_vars

(* The viewport of an empty board: zoom and pan.                            *)
NextView ==
    \/ ZoomClick
    \/ PanDown
    \/ PanMove
    \/ PanUp
    \/ PointerUp

SpecView == Init /\ [][NextView]_vars

(* The same session with the board zoomed between drags.                    *)
NextZoom ==
    \/ PointerDown
    \/ PointerMove
    \/ PointerUp
    \/ Zoom
    \/ ItemsTxDone

SpecZoom == InitDrag /\ [][NextZoom]_vars

(* A saved board that is dragged while the zoom buttons are activated.      *)
NextZoomDrag ==
    \/ PointerDown
    \/ PointerMove
    \/ PointerUp
    \/ ZoomHeld
    \/ ItemsTxDone

SpecZoomDrag == InitDrag /\ [][NextZoomDrag]_vars

(* Generation on a board on which an item is pressed and dragged           *)
(* meanwhile: one drag, followed up to the release of the pointer.          *)
NextGenDrag ==
    \/ SetInputText
    \/ GenerateQuote
    \/ QuoteSettles
    \/ GenerateGoals
    \/ GoalsSettles
    \/ GenerateImage
    \/ ImageSettles
    \/ PointerDown
    \/ PointerMove
    \/ ItemsTxDone

SpecGenDrag == InitGen /\ [][NextGenDrag]_vars

(* The board helpers called directly, with ids the collection holds and    *)
(* ids it does not hold, on a saved board.                                 *)
NextCalls ==
    \/ UpdateItemCall
    \/ DeleteItemCall
    \/ ItemsTxDone

SpecCalls == InitDrag /\ [][NextCalls]_vars

(* The viewport of a saved board: zoom and pan.                             *)
NextViewBoard ==
    \/ ZoomClick
    \/ PanDown
    \/ PanMove
    \/ PanUp
    \/ PointerUp

SpecViewBoard == InitDrag /\ [][NextViewBoard]_vars

(* Generation whose collaborator settles every call. A request is started  *)
(* only on a board with room for its item, so that MaxItems never keeps a   *)
(* result from being handled; the collaborator settles each call and the    *)
(* store completes each transaction.                                       *)
NextGenLive ==
    \/ Tick
    \/ SetInputText
    \/ Len(items) < MaxItems /\ GenerateQuote
    \/ QuoteSettles
    \/ Len(items) < MaxItems /\ GenerateGoals
    \/ GoalsSettles
    \/ Len(items) < MaxItems /\ GenerateImage
    \/ ImageSettles
    \/ ItemsTxDone

SpecGenLive ==
    /\ InitGen
    /\ [][NextGenLive]_vars
    /\ WF_vars(QuoteSettles)
    /\ WF_vars(GoalsSettles)
    /\ WF_vars(ImageSettles)
    /\ WF_vars(ItemsTxDone)

----------------------------------------------------------------------------
(* Properties.                                                             *)

Indices(seq, id) == { i \in DOMAIN seq : seq[i].id = id }

\* The store holds exactly the collection, item by item and field by field.
StoreMirrorsMemory ==
    /\ Len(items) = Cardinality(DOMAIN dbItems)
    /\ \A i \in DOMAIN items :
          /\ items[i].id \in DOMAIN dbItems
          /\ dbItems[items[i].id] = items[i]

\* Every dispatched write has completed.
Quiescent == itemsTx = << >> /\ settingsTx = << >>

\* C1: after bringToFront(id) on an item of the collection (the pointer-down
\* that calls it), that item's zIndex is strictly greater than the zIndex of
\* every other item, also when it is called again on the same id.
C1_BroughtToFrontIsTopmost ==
    last.op = "pointerDown" =>
        \A i \in Indices(items, last.id) :
            \A j \in DOMAIN items \ {i} : items[i].zIndex > items[j].zIndex

\* C2: once every dispatched write has completed, the store holds exactly the
\* in-memory collection, item by item and field by field.
C2_EventuallyConsistent == Quiescent => StoreMirrorsMemory

\* C3: an item handed to addItem is the last item of the collection, with the
\* same fields, right after the call, and its write is queued; when a put has
\* completed, a reload (getAllItems into an empty collection) yields a
\* collection that contains the written item with the same fields.
C3_AddedItemIsKeptAndReloaded ==
    /\ last.op = "addItem" =>
          /\ items # << >>
          /\ items[Len(items)] = last.item
          /\ itemsTx # << >>
          /\ itemsTx[Len(itemsTx)] = PutTx(last.item)
    /\ last.op = "put" =>
          \E k \in DOMAIN loadItems(dbItems) : loadItems(dbItems)[k] = last.item

\* A put of an item that is in the collection has completed, and the reload
\* holds that item.
C3_Witness ==
    /\ last.op = "put"
    /\ \E i \in DOMAIN items : items[i] = last.item
    /\ \E k \in DOMAIN loadItems(dbItems) : loadItems(dbItems)[k] = last.item

\* C4: no two items of the collection share an id.
C4_UniqueIds ==
    \A i, j \in DOMAIN items : i # j => items[i].id # items[j].id

\* C5: when the clear of a confirmed reset completes the store holds no item;
\* when the reset ends the collection is empty, the background is absent in
\* memory and in the store; and every setting other than bgImage that the
\* store held at start-up is still there with its value.
C5_ResetClearsBoardOnly ==
    /\ last.op = "clear" => DOMAIN dbItems = {}
    /\ last.op = "resetDone" =>
          /\ items = << >>
          /\ bgImage = Null
          /\ "bgImage" \notin DOMAIN dbSettings
    /\ last.op \in {"clear", "resetDone"} =>
          \A k \in DOMAIN hist.seed \ {"bgImage"} :
              k \in DOMAIN dbSettings /\ dbSettings[k] = hist.seed[k]

\* A reset has ended that found items in the collection and a background in
\* the store, and the other setting is still stored.
C5_Witness ==
    /\ last.op = "resetDone"
    /\ last.hadBg
    /\ last.hadItems
    /\ dbGet(dbSettings, "otherPref") = "dark"

\* The latest handler ran on the item whose drag began at the recorded
\* pointer-down.
OfRecordedDrag == last.id = hist.id /\ hist.id # ""

SameButPosition(a, b) ==
    /\ a.id = b.id
    /\ a.type = b.type
    /\ a.zIndex = b.zIndex
    /\ a.content = b.content
    /\ a.meta = b.meta

\* C6, as stated: after a drag sequence (pointer-down, moves, pointer-up) the
\* item's id, type, zIndex, content and meta are what they were before it.
C6_DragChangesOnlyPosition ==
    (last.op = "pointerUp" /\ OfRecordedDrag) =>
        \A i \in Indices(hist.snap, last.id) :
            SameButPosition(items[i], hist.snap[i])

\* C6, amended: through a drag sequence the item's id, type, content and meta
\* stay what they were before the pointer-down, and its zIndex is the one
\* bringToFront gave it at the pointer-down: one more than the largest zIndex
\* of the collection before it.
C6_DragChangesPositionAndZIndex ==
    (last.op \in {"pointerDown", "pointerMove", "pointerUp"} /\ OfRecordedDrag) =>
        \A i \in Indices(hist.snap, last.id) :
            /\ items[i].id = hist.snap[i].id
            /\ items[i].type = hist.snap[i].type
            /\ items[i].content = hist.snap[i].content
            /\ items[i].meta = hist.snap[i].meta
            /\ items[i].zIndex = MaxZ(hist.snap) + 1

\* A drag with at least one move has ended and has moved the item.
C6_Witness ==
    /\ last.op = "pointerUp"
    /\ OfRecordedDrag
    /\ hist.moved
    /\ \E i \in Indices(hist.snap, last.id) :
          items[i].position # hist.snap[i].position

\* C7: during a drag at a constant scale, after a pointer-move to p the item
\* is at its position at pointer-down plus (p - p0) / scale, and every other
\* item is where it was.
C7_DragFollowsPointer ==
    (/\ last.op = "pointerMove"
     /\ OfRecordedDrag
     /\ pointer.capture = last.id
     /\ scale = hist.scale0) =>
        \A i \in DOMAIN hist.snap :
            items[i].position =
                IF hist.snap[i].id = last.id
                THEN PAdd(hist.snap[i].position,
                          PDiv(PSub(hist.p, hist.p0), scale))
                ELSE hist.snap[i].position

\* C8: after a pointer-up or a loss of the pointer capture the item is not
\* Dragging, and a pointer-move changes an item's position only while that
\* item holds the capture of the pressed pointer.
C8_IdleAfterUpOrCaptureLoss ==
    /\ last.op \in {"pointerUp", "lostCapture"} => last.id \notin Dragging(comp)
    /\ last.op = "pointerMove" => pointer.capture = last.id

\* C9: at most one item is Dragging.
C9_AtMostOneDragging == Cardinality(Dragging(comp)) <= 1

\* C10: the board is never panning while some item is Dragging.
C10_DragAndPanExclusive == ~(isPanning /\ Dragging(comp) # {})

\* C11: the scale is always within [0.5, 2.0]; a zoom-in at 2.0 leaves it at
\* 2.0 and a zoom-out at 0.5 leaves it at 0.5.
C11_ScaleStaysInRange ==
    /\ ~RLess(scale, Rat(1, 2))
    /\ ~RLess(Num(2), scale)
    /\ (last.op = "zoomIn" /\ last.from = Num(2)) => scale = Num(2)
    /\ (last.op = "zoomOut" /\ last.from = Rat(1, 2)) => scale = Rat(1, 2)

\* A zoom-in was clicked at the upper limit.
C11_Witness == last.op = "zoomIn" /\ last.from = Num(2) /\ scale = Num(2)

\* The collaborator raised an error for the affirmation request that just ended.
QuoteCallFailed == last.op = "quoteSettled" /\ last.reply.kind = "error"

\* C12, as stated: when the collaborator returns an error for an affirmation
\* request, the collection after the request is the collection before it.
C12_FailedQuoteAddsNoItem == QuoteCallFailed => items = last.before

\* C12, amended: when the collaborator returns an error for an affirmation
\* request, every existing item is unchanged and exactly one item is appended,
\* a QUOTE whose content is the fallback string "Focus on the good.".
C12_FailedQuoteAddsFallbackItem ==
    QuoteCallFailed =>
        /\ Len(items) = Len(last.before) + 1
        /\ SubSeq(items, 1, Len(last.before)) = last.before
        /\ items[Len(items)].type = QUOTE
        /\ items[Len(items)].content = "Focus on the good."

\* The collaborator raised an error for an affirmation requested on a board
\* that holds an item.
C12_Witness == QuoteCallFailed /\ last.before # << >> /\ Len(items) = 2

\* The request that just ended failed: the API key is missing, the call
\* raised, or it returned no usable text.
QuoteFailed ==
    /\ last.op = "quoteSettled"
    /\ \/ last.reply.kind \in {"noKey", "error"}
       \/ last.reply.text = Undefined
       \/ Trim(last.reply.text) = ""

GoalsFailed ==
    /\ last.op = "goalsSettled"
    /\ \/ last.reply.kind \in {"noKey", "error"}
       \/ last.reply.text \in {Undefined, ""}
       \/ ~JsonParses(last.reply.text)

\* C13: a failed affirmation request ends with an item whose content is a fixed
\* default string, and a failed goals request with an item whose list is a
\* fixed default triple, whichever way the request failed.
C13_FailureFallsBackToDefault ==
    /\ QuoteFailed =>
          /\ last.added
          /\ items[Len(items)].content
                 \in {"Focus on the good.", "Believe in yourself."}
    /\ GoalsFailed =>
          /\ last.added
          /\ items[Len(items)].meta.items
                 \in {<<"Dream Big", "Take Action", "Stay Consistent">>,
                      <<"Goal 1", "Goal 2", "Goal 3">>}

\* C14: an image request that fails, by an error or by a result without image,
\* raises an alert and adds no item: a request that ends without an alert has
\* added its item, and one that ends with the alert leaves the collection as it
\* found it.
C14_FailedImageAlertsAndAddsNothing ==
    /\ last.op = "imageSettled" => (last.added /\ last.reply.kind = "image")
    /\ (last.op = "alert" /\ last.by = "generateImage") => items = last.items

C16_FailedLoadStartsEmpty ==
    /\ [](last.op = "loadFailed" =>
            (items = << >> /\ bgImage = Null /\ ~isInitializing))
    /\ (isInitializing ~> ~isInitializing)

\* The read of the bgImage setting raised after the stored items had been
\* read: the store holds items and a background, the board shows none.
C16_Witness ==
    /\ last = Op("loadFailed", "bgImage")
    /\ DOMAIN dbItems # {}
    /\ "bgImage" \in DOMAIN dbSettings
    /\ items = << >>
    /\ ~isInitializing

\* C17: a reset whose confirmation is declined changes nothing: the
\* collection, the background, both object stores and the queued
\* transactions (so no clear is issued) are what they were.
C17_DeclinedResetChangesNothing ==
    [][last'.op = "resetDeclined" =>
          UNCHANGED <<items, bgImage, dbItems, dbSettings, itemsTx, settingsTx>>]_vars

\* A reset was declined on a board with an item and a background, both
\* stored; they are all still there and no clear is queued.
C17_Witness ==
    /\ last.op = "resetDeclined"
    /\ items # << >>
    /\ bgImage # Null
    /\ DOMAIN dbItems # {}
    /\ "bgImage" \in DOMAIN dbSettings
    /\ \A k \in DOMAIN itemsTx : itemsTx[k].op # "clear"

\* C18: a confirmed reset empties the collection and the background in
\* memory before it issues the store clear: right after the confirmation
\* both are empty, and when the clear of 'items' completes no item it
\* removed from the store is still in the collection.
C18_MemoryIsEmptiedBeforeStore ==
    /\ last.op = "resetConfirmed" => (items = << >> /\ bgImage = Null)
    /\ last.op = "clear" => Ids(items) \cap last.cleared = {}

\* C19: a reset is atomic with respect to the operations that interleave
\* with it: once no transaction is pending (the reset's clear included) and
\* the ids in memory are distinct, the 'items' store holds exactly the
\* collection and the stored background is the one in memory.
C19_ResetIsAtomic ==
    (Quiescent /\ C4_UniqueIds) =>
        (StoreMirrorsMemory /\ bgImage = loadBg(dbSettings))

\* The ids on which the 'items' store and the collection differ: stored and
\* not in the collection, in the collection and not stored, or stored with
\* other contents.
Differing ==
    { id \in DOMAIN dbItems \cup Ids(items) :
        \/ id \notin DOMAIN dbItems
        \/ id \notin Ids(items)
        \/ \E i \in DOMAIN items : items[i].id = id /\ items[i] # dbItems[id] }

\* C20: at every moment the store differs from the collection by the effect
\* of at most one mutation: each mutation of the collection touches one
\* id, so the two differ on at most one id.
C20_AtMostOneMutationLost == Cardinality(Differing) <= 1

\* C21: a newly created item's zIndex is the number of items in the
\* collection at the moment it is added, plus 1, for an item added by a
\* button and for one added when a generation request settles.
C21_NewItemZIndexIsCountPlusOne ==
    /\ last.op = "addItem" => last.item.zIndex = (Len(items) - 1) + 1
    /\ (last.op \in {"quoteSettled", "goalsSettled", "imageSettled"} /\ last.added) =>
           items[Len(items)].zIndex = Len(last.before) + 1

\* C22: when the scale has changed since the pointer-down, a pointer-move of
\* the captured pointer to p still leaves the dragged item's top-left corner
\* on screen (the left and top of its bounding box) at p minus the offset
\* recorded at pointer-down.
C22_DragFollowsPointerAcrossZoom ==
    (/\ last.op = "pointerMove"
     /\ pointer.capture = last.id
     /\ scale # hist.scale0) =>
        \A i \in Indices(items, last.id) :
            \E inset \in Insets(items[i]) :
                itemRect(items[i], scale, pan, inset) =
                    PSub(hist.p, comp[last.id].dragOffset)

\* C23: at most one generation request is in flight, and one is in flight
\* only while loading is set; a request starts only while loading is not
\* set. (That an item can be dragged while loading is set is a state the
\* program reaches: C23_Witness.)
C23_OneRequestAtATime ==
    /\ [](Len(pending) <= 1 /\ (pending # << >> => loading))
    /\ [][Len(pending') > Len(pending) => ~loading]_vars

\* While a request is in flight and loading is set, an item that was there
\* before follows the captured pointer to a new position.
C23_Witness ==
    /\ loading
    /\ Len(pending) = 1
    /\ last.op = "pointerMove"
    /\ pointer.capture = last.id
    /\ \E i \in Indices(hist.snap, last.id) :
          items[i].position # hist.snap[i].position

\* C24: updateItem and deleteItem called with an id the collection does not
\* hold leave the collection as it was, and such an updateItem queues no
\* write; updateItem called with an id the collection holds queues one put
\* per item of that id, of the item with each given field in place of its
\* own and every other field kept, and the collection holds that item.
C24_AbsentIdIsNoOp ==
    /\ (last.op \in {"updateItemCall", "deleteItemCall"}
            /\ last.id \notin Ids(last.before)) => items = last.before
    /\ (last.op = "updateItemCall" /\ last.id \notin Ids(last.before)) =>
            itemsTx = last.queue
    /\ (last.op = "updateItemCall" /\ last.id \in Ids(last.before)) =>
          LET old == Matching(last.before, last.id)
          IN  /\ Len(itemsTx) = Len(last.queue) + Len(old)
              /\ \A k \in DOMAIN old :
                    LET tx == itemsTx[Len(last.queue) + k]
                    IN  /\ tx.op = "put"
                        /\ DOMAIN tx.item = DOMAIN old[k]
                        /\ \A f \in DOMAIN old[k] :
                              tx.item[f] = IF f \in DOMAIN last.updates
                                           THEN last.updates[f]
                                           ELSE old[k][f]
                        /\ \E i \in DOMAIN items : items[i] = tx.item
              /\ Len(items) = Len(last.before)

\* updateItem was called with an id the collection holds, and the put of the
\* edited item is still queued; then it was called with an id the collection
\* does not hold.
C24_Witness ==
    /\ last.op = "updateItemCall"
    /\ last.id \notin Ids(last.before)
    /\ last.before # << >>
    /\ last.queue # << >>
    /\ last.queue[Len(last.queue)].op = "put"
    /\ last.queue[Len(last.queue)].item.content = "edited"

\* C25: a pointer-down inside the hover controls of an item starts no drag:
\* the item's isDragging and dragOffset, every item's zIndex and position,
\* and the queued writes are what they were (bringToFront is not called),
\* and the pointer is not captured.
C25_NoDragRegionStartsNoDrag ==
    /\ [][last'.op = "pointerDownNoDrag" => UNCHANGED <<items, comp, itemsTx>>]_vars
    /\ [](last.op = "pointerDownNoDrag" => pointer.capture = "none")

\* The hover controls of an item that is Idle and not topmost were pressed:
\* it is still Idle and still below the topmost item.
C25_Witness ==
    /\ last.op = "pointerDownNoDrag"
    /\ last.id \notin Dragging(comp)
    /\ \E i \in Indices(items, last.id) : items[i].zIndex < MaxZ(items)

\* C26: a click on a zoom button leaves the pan offset and every item as
\* they were; a pan move adds to the pan offset the difference between the
\* mouse position and the previous one, unclamped, and leaves the scale and
\* every item as they were.
C26_ViewportOpsTouchOwnVariable ==
    [][/\ last'.op \in {"zoomOut", "zoomIn"} => UNCHANGED <<pan, items>>
       /\ last'.op = "panMove" =>
             /\ pan' = PAdd(pan, PSub(lastMousePos', lastMousePos))
             /\ UNCHANGED <<scale, items>>]_vars

\* A zoom button was clicked on a board with items that had been panned
\* away from the centre: the board is still panned away and zoomed.
C26_Witness ==
    /\ last.op \in {"zoomOut", "zoomIn"}
    /\ scale # last.from
    /\ pan # centerPan
    /\ items # << >>

\* C27: whenever loading is set it is eventually cleared, whatever the
\* collaborator answers.
C27_LoadingIsReleased == loading ~> ~loading

\* An image request raised: the alert was shown, no request is in flight
\* and loading is cleared.
C27_Witness ==
    /\ last.op = "alert"
    /\ last.by = "generateImage"
    /\ last.id = "settled"
    /\ last.loading
    /\ pending = << >>
    /\ ~loading

====
